---- MODULE Spec2Model ----
(***************************************************************************)
(* Model of the Condor dispatch path of runtests: Runtests.main (main.py)   *)
(* run with the Condor executor (condor.py).  The coordinator registers the *)
(* test cases and the job in the registry, encodes the remote argument      *)
(* string, submits one array job to the scheduler, writes the local job     *)
(* record and exits.                                                        *)
(*                                                                          *)
(* Text is modelled as sequences of one-character strings wherever the code *)
(* edits it (quoting, regular-expression search); option names and fixed    *)
(* words are TLA+ strings.                                                  *)
(***************************************************************************)
EXTENDS Naturals, Integers, Sequences, FiniteSets, TLC

\* ------------------------------------------------------------------ bounds
\* How many options of one invocation the user supplies on the command line.
MaxSupplied == 2
\* How many paths are given on the command line.
MaxPaths == 2
\* The largest batch size an invocation is run with.
MaxBatchSize == 2
\* The largest job identity the registry hands out.
MaxJobId == 2
\* The longest run of digits in a scheduler response.
MaxDigits == 2

\* ------------------------------------------------------------- values
\* A Python value as the argument encoder sees it: its type, the text str()
\* gives for it, and whether it is the very object the argument parser holds
\* as the option's default (the encoder compares with "is not").
Val(k, t, d) == [kind |-> k, text |-> t, isdef |-> d]

NoneText == <<"N", "o", "n", "e">>
TrueText == <<"T", "r", "u", "e">>
FalseText == <<"F", "a", "l", "s", "e">>

\* Python truthiness of a value: None, False, 0 and the empty string are false.
Truthy(v) ==
    CASE v.kind = "none" -> FALSE
      [] v.kind = "bool" -> v.text = TrueText
      [] v.kind = "int"  -> v.text # <<"0">>
      [] OTHER           -> v.text # <<>>

\* ------------------------------------------------------------ options
\* The allow-list of build_arguments.
ARGS_TO_COPY ==
    {"db", "dbpath", "db_pg_schema", "interp", "interp_path", "interp_version",
     "tests_version", "no_parasite", "parser", "verbose", "timeout", "simp",
     "stats", "byte"}

\* The options declared by the interpreter adapters (interpreter.py).
InterpreterOpts == {"no_parasite", "simp", "stats", "byte"}

\* The other options of build_arg_parser that reach Condor.other_args: the
\* condor_req, condor_exec, condor_log and condor_log_all options are taken
\* by Condor.__init__ as named parameters and never stored there.
OtherOpts ==
    {"filenames", "batch", "exclude", "executor", "batch_size", "title",
     "note", "webreport", "templatedir", "reportdir", "noindex", "db_init",
     "condor_help"}

OptNames == ARGS_TO_COPY \cup OtherOpts

\* The declared default of each option of build_arg_parser.
ParserDefault(o) ==
    CASE o \in {"db", "tests_version", "verbose"} -> Val("none", NoneText, TRUE)
      [] o = "timeout" -> Val("int", <<"5", "4", "0">>, TRUE)
      [] o = "batch_size" -> Val("int", <<"4">>, TRUE)
      [] o \in {"webreport", "noindex", "db_init", "condor_help"} ->
            Val("bool", FalseText, TRUE)
      [] o \in {"filenames", "exclude"} -> Val("list", <<"[", "]">>, TRUE)
      [] o = "db_pg_schema" -> Val("str", <<"j", "s", "i", "l">>, TRUE)
      [] o = "interp" -> Val("str", <<"j", "s", "r", "e", "f">>, TRUE)
      [] o = "executor" -> Val("str", <<"s", "e", "q">>, TRUE)
      [] o \in {"templatedir", "reportdir"} -> Val("str", <<"t", "r">>, TRUE)
      [] OTHER -> Val("str", <<>>, TRUE)

\* The default of an interpreter adapter's option: a store_true toggle.
InterpreterDefault(o) == Val("bool", FalseText, TRUE)

Default(o) == IF o \in InterpreterOpts THEN InterpreterDefault(o) ELSE ParserDefault(o)

CondorText == <<"c", "o", "n", "d", "o", "r">>

\* The texts a user can give a free-text option: empty, plain, and one with a
\* single quote in it.
FreeTexts == {<<>>, <<"a">>, <<"a", "'", "b">>}

\* The values an option can be given on the command line (argparse converts
\* by the option's action and type).
SuppliedTexts(o) ==
    CASE o = "db" -> {<<"s", "q", "l">>, <<"p", "g">>}
      [] o = "interp" -> {<<"j", "s", "r", "e", "f">>, <<"n", "o", "d", "e">>}
      [] o = "executor" -> {<<"s", "e", "q">>, CondorText}
      [] o = "timeout" -> {<<"0">>, <<"6", "0">>, <<"5", "4", "0">>}
      [] o = "batch_size" -> {<<"1">>, <<"4">>}
      [] o = "verbose" -> {<<"1">>, <<"2">>}
      [] o \in {"filenames", "exclude"} -> {<<"[", "f", "]">>}
      [] Default(o).kind = "bool" -> {TrueText}
      [] o = "db_pg_schema" -> FreeTexts \cup {<<"j", "s", "i", "l">>}
      [] OTHER -> FreeTexts

SuppliedKind(o) ==
    CASE o \in {"timeout", "batch_size", "verbose"} -> "int"
      [] o \in {"filenames", "exclude"} -> "list"
      [] Default(o).kind = "bool" -> "bool"
      [] OTHER -> "str"

\* A supplied value equal to the default may or may not be the default object
\* (interning of small integers and of short strings decides it); one that
\* differs from the default never is.
Supplied(o) ==
    {v \in {Val(SuppliedKind(o), t, d) : t \in SuppliedTexts(o), d \in BOOLEAN} :
        v.isdef => (v.kind = Default(o).kind /\ v.text = Default(o).text)}

\* The parsed invocation in which the options of S were supplied with the
\* values f gives them and every other option was left alone.
Invocation(S, f) == [o \in OptNames |-> IF o \in S THEN f[o] ELSE Default(o)]

\* Every invocation that supplies exactly the options of S.
InvocationsOf(S) ==
    {Invocation(S, f) :
        f \in {g \in [S -> UNION {Supplied(o) : o \in S}] :
                  \A o \in S : g[o] \in Supplied(o)}}

\* Every invocation that supplies the options of Must and at most k of U.
Invocations(Must, U, k) ==
    UNION {InvocationsOf(Must \cup S) :
              S \in {T \in SUBSET (U \ Must) : Cardinality(T) <= k}}

\* The invocations of the Condor coordinator: -x condor is among the options
\* supplied.
CondorInvocations(Must, U, k) ==
    {a \in Invocations(Must \cup {"executor"}, U, k) : a["executor"].text = CondorText}

\* -------------------------------------------------------------- tokens
\* One element of the argument list: a bare word, or a quoted text.
Word(w) == [kind |-> "word", w |-> w, q |-> <<>>]
Quoted(q) == [kind |-> "quoted", w |-> "", q |-> q]
\* A bare word whose characters matter (the batch-reference token).
Text(q) == [kind |-> "text", w |-> "", q |-> q]

\* str.replace("'", "''"): every single quote doubled.
RECURSIVE DoubleQuotes(_)
DoubleQuotes(t) ==
    IF t = <<>> THEN <<>>
    ELSE (IF Head(t) = "'" THEN <<"'", "'">> ELSE <<Head(t)>>) \o DoubleQuotes(Tail(t))

\* "'%s'" % v
QuoteValue(t) == <<"'">> \o DoubleQuotes(t) \o <<"'">>

\* The decimal digits of a natural number, as str() prints it.
DigitChar(d) == CASE d = 0 -> "0" [] d = 1 -> "1" [] d = 2 -> "2" [] d = 3 -> "3"
                  [] d = 4 -> "4" [] d = 5 -> "5" [] d = 6 -> "6" [] d = 7 -> "7"
                  [] d = 8 -> "8" [] OTHER -> "9"

RECURSIVE IntText(_)
IntText(n) == IF n < 10 THEN <<DigitChar(n)>> ELSE IntText(n \div 10) \o <<DigitChar(n % 10)>>

\* The order in which a dict hands out its keys is the interpreter's choice:
\* two enumerations of the options stand for it.
OptOrderA ==
    <<"db", "dbpath", "db_pg_schema", "interp", "interp_path", "interp_version",
      "tests_version", "no_parasite", "parser", "verbose", "timeout", "simp",
      "stats", "byte", "filenames", "batch", "exclude", "executor", "batch_size",
      "title", "note", "webreport", "templatedir", "reportdir", "noindex",
      "db_init", "condor_help">>

Reverse(s) == [i \in 1..Len(s) |-> s[Len(s) + 1 - i]]

OptOrders == {OptOrderA, Reverse(OptOrderA)}

\* The test of the copy loop: the option is allow-listed and its value is not
\* the parser's default object.
CopyTestNoAllowList(oa, arg) == ~oa[arg].isdef
CopyTest(oa, arg) == arg \in ARGS_TO_COPY /\ ~oa[arg].isdef

\* What the copy loop appends for one option.
CopyOneAlwaysQuoted(oa, arg) ==
    IF CopyTest(oa, arg) THEN <<Word("--" \o arg), Quoted(QuoteValue(oa[arg].text))>>
    ELSE <<>>
CopyOne(oa, arg) ==
    IF CopyTest(oa, arg)
    THEN <<Word("--" \o arg)>> \o
         (IF oa[arg].kind # "bool" THEN <<Quoted(QuoteValue(oa[arg].text))>> ELSE <<>>)
    ELSE <<>>

RECURSIVE CopyLoop(_, _)
CopyLoop(oa, order) ==
    IF order = <<>> THEN <<>> ELSE CopyOne(oa, Head(order)) \o CopyLoop(oa, Tail(order))

\* The batch-reference token "%s,$(Process)" % job._dbid; $(Process) is the
\* scheduler's macro, one character of the text here.
BatchToken(dbid) == Text(IntText(dbid) \o <<",", "$(Process)">>)

\* The argument list build_arguments joins with spaces, after the staging of
\* the credential: the copied options, the forced executor, the batch scope.
BuildArgumentsExecutorFirst(oa, order, subexec, dbid) ==
    <<Word("-x"), Word(subexec)>> \o CopyLoop(oa, order) \o
    <<Word("--batch"), BatchToken(dbid)>>
BuildArguments(oa, order, subexec, dbid) ==
    CopyLoop(oa, order) \o
    <<Word("-x"), Word(subexec), Word("--batch"), BatchToken(dbid)>>

\* ------------------------------------------------- scheduler response
Digits == {"0", "1", "2", "3", "4", "5", "6", "7", "8", "9"}

\* The pattern of submit_job, r'(\d+)\.\d+ - \d+\.\d+', element by element;
\* the first element is group 1.
DigitsPlus == [type |-> "digits", c |-> ""]
Lit(c) == [type |-> "lit", c |-> c]
AnyChar == [type |-> "any", c |-> ""]

SubmitPatternUnescaped ==
    <<DigitsPlus, AnyChar, DigitsPlus, Lit(" "), Lit("-"), Lit(" "),
      DigitsPlus, AnyChar, DigitsPlus>>
SubmitPattern ==
    <<DigitsPlus, Lit("."), DigitsPlus, Lit(" "), Lit("-"), Lit(" "),
      DigitsPlus, Lit("."), DigitsPlus>>

\* The length of the run of digits that starts at position i of s.
RECURSIVE DigitRun(_, _)
DigitRun(s, i) ==
    IF i <= Len(s) /\ s[i] \in Digits THEN 1 + DigitRun(s, i + 1) ELSE 0

\* A backtracking match of the pattern from its element j on, at position i.
RECURSIVE MatchFrom(_, _, _, _)
MatchFrom(pat, s, i, j) ==
    IF j > Len(pat) THEN TRUE
    ELSE CASE pat[j].type = "lit" ->
                i <= Len(s) /\ s[i] = pat[j].c /\ MatchFrom(pat, s, i + 1, j + 1)
           [] pat[j].type = "any" ->
                i <= Len(s) /\ s[i] # "\n" /\ MatchFrom(pat, s, i + 1, j + 1)
           [] OTHER ->
                \E k \in 1..DigitRun(s, i) : MatchFrom(pat, s, i + k, j + 1)

\* re.search: the leftmost position at which the pattern matches, 0 if none.
SearchPos(pat, s) ==
    LET hits == {i \in 1..Len(s) : MatchFrom(pat, s, i, 1)}
    IN  IF hits = {} THEN 0 ELSE CHOOSE i \in hits : \A h \in hits : i <= h

\* match.group(1): the greedy first element, the longest run of digits at the
\* match position after which the rest of the pattern still matches.
Group1(pat, s, i) ==
    LET ks == {k \in 1..DigitRun(s, i) : MatchFrom(pat, s, i + k, 2)}
        k  == CHOOSE m \in ks : \A n \in ks : n <= m
    IN  SubSeq(s, i, i + k - 1)

\* The failure sentinel of submit_job: the integer 0.
Sentinel == Val("int", <<"0">>, FALSE)

\* What submit_job returns for the scheduler's output: the text of group 1,
\* or the sentinel.
SubmitResult(out) ==
    LET i == SearchPos(SubmitPattern, out)
    IN  IF i # 0 THEN Val("str", Group1(SubmitPattern, out, i), FALSE) ELSE Sentinel

\* ------------------------------------------------------ test discovery
\* The paths an invocation can name: a file, a directory and a path that does
\* not exist.
PathArgs == {"a.js", "d", "missing"}
PathExists(p) == p # "missing"
IsDir(p) == p = "d"
\* os.walk of the directory: every file below it, joined to its directory.
WalkFiles(p) == <<"d/x.js", "d/y.txt">>
EndsWithJs(f) == f \in {"a.js", "d/x.js"}
ExcludeArgs == {"a.js", "d/x.js"}

TestCase(path) == [path |-> path, dbid |-> 0]

RECURSIVE DirCases(_, _, _)
DirCases(files, testcases, exclude) ==
    IF files = <<>> THEN testcases
    ELSE DirCases(Tail(files),
                  IF EndsWithJs(Head(files)) /\ Head(files) \notin exclude
                  THEN Append(testcases, TestCase(Head(files))) ELSE testcases,
                  exclude)

get_testcases_from_dir(dirname, testcases, exclude) ==
    DirCases(WalkFiles(dirname), testcases, exclude)

\* The result of the discovery: the test cases, or the IOError raised.
Found(tcs) == [ok |-> TRUE, tcs |-> tcs]
IOError == [ok |-> FALSE, tcs |-> <<>>]

get_testcases_from_path(path, testcases, exclude) ==
    IF ~PathExists(path) THEN IOError
    ELSE IF IsDir(path) THEN Found(get_testcases_from_dir(path, testcases, exclude))
    ELSE IF path \notin exclude THEN Found(Append(testcases, TestCase(path)))
    ELSE Found(testcases)

RECURSIVE ReducePaths(_, _, _)
ReducePaths(paths, ts, exclude) ==
    IF paths = <<>> THEN Found(ts)
    ELSE LET r == get_testcases_from_path(Head(paths), ts, exclude)
         IN  IF r.ok THEN ReducePaths(Tail(paths), r.tcs, exclude) ELSE IOError

get_testcases_from_paths(paths, exclude) == ReducePaths(paths, <<>>, exclude)

PathLists == UNION {[1..n -> PathArgs] : n \in 0..MaxPaths}

\* ---------------------------------------------------------- partitioner
Min(a, b) == IF a <= b THEN a ELSE b
CeilDiv(n, b) == (n + b - 1) \div b

\* Job.add_testcases: batch i holds the test cases at positions
\* [i*B, min((i+1)*B, N)), in order.
Partition(tcs, B) ==
    [i \in 1..CeilDiv(Len(tcs), B) |-> SubSeq(tcs, (i - 1) * B + 1, Min(i * B, Len(tcs)))]

\* ------------------------------------------------------------- registry
EmptyRegistry == [tests |-> <<>>, job |-> 0, batches |-> <<>>,
                  cluster |-> Val("none", NoneText, FALSE), connected |-> TRUE]

\* insert_testcases: one row per test case, its identity the row's number.
InsertRows(reg, tcs) ==
    [reg EXCEPT !.tests = reg.tests \o [i \in 1..Len(tcs) |-> tcs[i].path]]
WithIdentities(reg, tcs) ==
    [i \in 1..Len(tcs) |-> [tcs[i] EXCEPT !.dbid = Len(reg.tests) + i]]

\* create_job_batches_runs: the job row and, per batch, the identities of its
\* test cases, committed together.
CreateRows(reg, jid, bs) ==
    [reg EXCEPT !.job = jid,
                !.batches = [i \in 1..Len(bs) |-> [k \in 1..Len(bs[i]) |-> bs[i][k].dbid]]]

\* update_object(job): the job row takes the job's cluster identifier.
UpdateRow(reg, cluster) == [reg EXCEPT !.cluster = cluster]

\* DBManager.from_args: a manager only when --db names a database.
DBManagerFromArgs(a) == Truthy(a["db"])

\* ---------------------------------------------------------------- files
OwnerOnly == {"ur", "uw"}
AllPerms == {"ur", "uw", "gr", "gw", "or", "ow"}
\* 0666 & ~umask for the umasks 077, 022 and 0.
CreateModes == {OwnerOnly, {"ur", "uw", "gr", "or"}, AllPerms}

\* The file .pgconfig.tmp, and what the file system refuses when the staging
\* reaches it ("none": nothing; else the call that fails).
Faults == {"none", "open", "fchmod", "write"}
NoFile == [exists |-> FALSE, mode |-> {}, content |-> <<>>, fault |-> "none"]
StaleFile == [exists |-> TRUE, mode |-> AllPerms, content |-> <<"o", "l", "d">>,
              fault |-> "none"]

\* The credential held in the RUNTESTS_DB environment variable.
SecretText == <<"p", "w">>
PgConfigTmp == Val("str", <<".pgconfig.tmp">>, FALSE)

\* ---------------------------------------------------- job description
LogFile(dbid, tail) == <<"job_">> \o IntText(dbid) \o <<"_condor_", "$(Cluster)">> \o tail
LOG_JOB_FILE(dbid) == LogFile(dbid, <<".log">>)
LOG_OUT_FILE(dbid) == LogFile(dbid, <<"-", "$(Process)", ".out">>)
LOG_ERR_FILE(dbid) == LogFile(dbid, <<"-", "$(Process)", ".err">>)

\* str.replace(old, new) for a one-character old.
RECURSIVE Replace(_, _, _)
Replace(t, old, new) ==
    IF t = <<>> THEN <<>>
    ELSE (IF Head(t) = old THEN new ELSE <<Head(t)>>) \o Replace(Tail(t), old, new)

\* '"%s"' % arguments.replace('"', '""'), token by token.
CondorQuote(toks) ==
    [i \in 1..Len(toks) |-> [toks[i] EXCEPT !.q = Replace(toks[i].q, "\"", <<"\"", "\"">>)]]

\* The job description of build_job: the entries of c, and the queue count.
JobDescriptionLogTied(reqs, argtoks, logall, logjob, dbid, n) ==
    [entries |->
        {<<"universe", <<"vanilla">>>>, <<"requirements", <<reqs>>>>,
         <<"executable", <<"argv0">>>>, <<"accounting_group", <<"jscert">>>>,
         <<"getenv", <<"True">>>>}
        \cup (IF logall THEN {<<"output", LOG_OUT_FILE(dbid)>>,
                              <<"error", LOG_ERR_FILE(dbid)>>,
                              <<"log", LOG_JOB_FILE(dbid)>>} ELSE {}),
     arguments |-> CondorQuote(argtoks),
     queue |-> n]
JobDescription(reqs, argtoks, logall, logjob, dbid, n) ==
    [entries |->
        {<<"universe", <<"vanilla">>>>, <<"requirements", <<reqs>>>>,
         <<"executable", <<"argv0">>>>, <<"accounting_group", <<"jscert">>>>,
         <<"getenv", <<"True">>>>}
        \cup (IF logall THEN {<<"output", LOG_OUT_FILE(dbid)>>,
                              <<"error", LOG_ERR_FILE(dbid)>>} ELSE {})
        \cup (IF logjob THEN {<<"log", LOG_JOB_FILE(dbid)>>} ELSE {}),
     arguments |-> CondorQuote(argtoks),
     queue |-> n]

NoJobDescription == [entries |-> {}, arguments |-> <<>>, queue |-> 0]

\* The scheduler outputs the coordinator is run against: a terse answer with
\* its newline, an answer for several tasks, an empty output and an error text.
TerseResponse == <<"7", ".", "0", " ", "-", " ", "7", ".", "3">>
Responses ==
    {<<"4", "8", ".", "0", " ", "-", " ", "4", "8", ".", "0", "\n">>,
     TerseResponse,
     <<>>,
     <<"E", "R", "R", "O", "R">>}

\* ---------------------------------------------------------------- state
VARIABLES
    pc,           \* where main, run_job and the functions they call stand
    exitCode,     \* the process's exit status, -1 while it runs
    interrupted,  \* Runtests.interrupted
    args,         \* the parsed invocation
    environ0,     \* whether RUNTESTS_DB was in the environment at startup
    environ,      \* whether RUNTESTS_DB is in os.environ
    condor,       \* the Condor executor's fields
    dbmanager,    \* main's dbmanager: whether it is a (true) manager
    testcases,    \* main's testcases
    job,          \* the Job: _dbid, batches, condor_cluster
    registry,     \* the registry's rows
    pgconfig,     \* the file .pgconfig.tmp
    jobinfo,      \* the entries of the file condor.jobinfo, {} before it is written
    arguments,    \* the tokens of build_arguments
    jobstr,       \* the job description of build_job
    scheduler,    \* what the scheduler was handed: job description, environment
    response,     \* the scheduler's output
    calls,        \* the operations invoked so far, in order
    visible,      \* whether the job's rows are visible to the remote readers
    tasks         \* the array tasks the scheduler runs, by array index

vars == <<pc, exitCode, interrupted, args, environ0, environ, condor, dbmanager,
          testcases, job, registry, pgconfig, jobinfo, arguments, jobstr,
          scheduler, response, calls, visible, tasks>>

NoCluster == Val("none", NoneText, FALSE)

NewJob == [dbid |-> 0, batches |-> <<>>, condor_cluster |-> NoCluster]

\* Condor.__init__: the condor options as fields, every other option kept.
NewCondor(a, logjob, logall, subexec, bsize) ==
    [dbmanager |-> FALSE, other_args |-> a, log_job |-> logjob, log_all |-> logall,
     sub_exec |-> subexec, machine_reqs |-> "OpSysMajorVer == 16", batch_size |-> bsize]

\* The executors --condor_exec can name: its choices are None (list.remove
\* returns None), so argparse takes any text, "condor" too.
SubExecs == {"sequential", "condor"}

\* The state main starts in for the invocation a.
Startup(a, env, logjob, logall, subexec, bsize, file) ==
    /\ pc = "start"
    /\ exitCode = -1
    /\ interrupted = FALSE
    /\ args = a
    /\ environ0 = env
    /\ environ = env
    /\ condor = NewCondor(a, logjob, logall, subexec, bsize)
    /\ dbmanager = FALSE
    /\ testcases = <<>>
    /\ job = NewJob
    /\ registry = EmptyRegistry
    /\ pgconfig = file
    /\ jobinfo = {}
    /\ arguments = <<>>
    /\ jobstr = NoJobDescription
    /\ scheduler = <<>>
    /\ response = <<>>
    /\ calls = <<>>
    /\ visible = FALSE
    /\ tasks = <<>>

Init ==
    \E a \in CondorInvocations({}, {"db", "dbpath"}, MaxSupplied),
       env \in BOOLEAN, logjob \in BOOLEAN, logall \in BOOLEAN,
       subexec \in SubExecs, bsize \in 1..MaxBatchSize, file \in {NoFile, StaleFile} :
        Startup(a, env, logjob, logall, subexec, bsize, file)

\* -------------------------------------------------------------- actions
Call(op) == calls' = Append(calls, op)

\* main's handler of an uncaught exception: it is logged and the process
\* exits with status 2; nothing is undone in the registry.
MainExceptRollback ==
    /\ pc' = "exited"
    /\ exitCode' = 2
    /\ registry' = EmptyRegistry
MainExcept ==
    /\ pc' = "exited"
    /\ exitCode' = 2
    /\ registry' = registry

\* main: the interrupt handler is installed, the executor constructed, the
\* manager made from the arguments and handed to the executor (add_handler).
Construct ==
    /\ pc = "start"
    /\ pc' = "collect"
    /\ dbmanager' = DBManagerFromArgs(args)
    /\ condor' = [condor EXCEPT !.dbmanager = DBManagerFromArgs(args)]
    /\ UNCHANGED <<exitCode, interrupted, args, environ0, environ, testcases, job,
                   registry, pgconfig, jobinfo, arguments, jobstr, scheduler,
                   response, calls>>
    /\ UNCHANGED <<visible, tasks>>

\* main: the test cases are collected from the paths given.
Collect ==
    /\ pc = "collect"
    /\ \E paths \in PathLists, exclude \in SUBSET ExcludeArgs :
          LET r == get_testcases_from_paths(paths, exclude)
          IN  IF r.ok
              THEN /\ testcases' = r.tcs
                   /\ pc' = "insert"
                   /\ UNCHANGED <<exitCode, registry>>
              ELSE /\ MainExcept
                   /\ UNCHANGED testcases
    /\ UNCHANGED <<interrupted, args, environ0, environ, condor, dbmanager, job,
                   pgconfig, jobinfo, arguments, jobstr, scheduler, response, calls>>
    /\ UNCHANGED <<visible, tasks>>

\* main: with a manager, the test cases are inserted and take their identities.
InsertTestcases ==
    /\ pc = "insert"
    /\ IF dbmanager
       THEN /\ Call("insert_testcases")
            /\ \/ /\ registry' = InsertRows(registry, testcases)
                  /\ testcases' = WithIdentities(registry, testcases)
                  /\ pc' = "add_testcases"
                  /\ UNCHANGED exitCode
               \/ /\ MainExcept
                  /\ UNCHANGED testcases
       ELSE /\ pc' = "add_testcases"
            /\ UNCHANGED <<exitCode, registry, testcases, calls>>
    /\ UNCHANGED <<interrupted, args, environ0, environ, condor, dbmanager, job,
                   pgconfig, jobinfo, arguments, jobstr, scheduler, response>>
    /\ UNCHANGED <<visible, tasks>>

\* main: job.add_testcases splits the test cases into the job's batches.
AddTestcases ==
    /\ pc = "add_testcases"
    /\ job' = [job EXCEPT !.batches = Partition(testcases, condor.batch_size)]
    /\ pc' = "create_job"
    /\ UNCHANGED <<exitCode, interrupted, args, environ0, environ, condor, dbmanager,
                   testcases, registry, pgconfig, jobinfo, arguments, jobstr,
                   scheduler, response, calls>>
    /\ UNCHANGED <<visible, tasks>>

\* main: with a manager, the job, its batches and their test cases are written.
CreateJobNever ==
    /\ pc = "create_job"
    /\ pc' = "run_job"
    /\ UNCHANGED <<exitCode, interrupted, args, environ0, environ, condor, dbmanager,
                   testcases, job, registry, pgconfig, jobinfo, arguments, jobstr,
                   scheduler, response, calls>>
    /\ UNCHANGED <<visible, tasks>>
CreateJob ==
    /\ pc = "create_job"
    /\ IF dbmanager
       THEN /\ Call("create_job_batches_runs")
            /\ \/ \E jid \in 1..MaxJobId :
                    /\ registry' = CreateRows(registry, jid, job.batches)
                    /\ job' = [job EXCEPT !.dbid = jid]
                    /\ pc' = "run_job"
                    /\ UNCHANGED exitCode
               \/ /\ MainExcept
                  /\ UNCHANGED job
       ELSE /\ pc' = "run_job"
            /\ UNCHANGED <<exitCode, registry, job, calls>>
    /\ UNCHANGED <<interrupted, args, environ0, environ, condor, dbmanager, testcases,
                   pgconfig, jobinfo, arguments, jobstr, scheduler, response>>
    /\ UNCHANGED <<visible, tasks>>

\* run_job: without a manager a ValueError is raised; with one, build_job
\* is entered.
RunJobUnguarded ==
    /\ pc = "run_job"
    /\ Call("build_job")
    /\ pc' = "build_arguments"
    /\ UNCHANGED <<exitCode, registry>>
    /\ UNCHANGED <<interrupted, args, environ0, environ, condor, dbmanager, testcases,
                   job, pgconfig, jobinfo, arguments, jobstr, scheduler, response>>
    /\ UNCHANGED <<visible, tasks>>
RunJob ==
    /\ pc = "run_job"
    /\ IF ~condor.dbmanager
       THEN /\ MainExcept
            /\ UNCHANGED calls
       ELSE /\ Call("build_job")
            /\ pc' = "build_arguments"
            /\ UNCHANGED <<exitCode, registry>>
    /\ UNCHANGED <<interrupted, args, environ0, environ, condor, dbmanager, testcases,
                   job, pgconfig, jobinfo, arguments, jobstr, scheduler, response>>
    /\ UNCHANGED <<visible, tasks>>

\* build_arguments: with RUNTESTS_DB in the environment and no dbpath, the
\* dbpath becomes the credential file's, which is then written; with a dbpath
\* the variable is only removed.
StagedPathLeak == Val("str", SecretText, FALSE)
StagedPath == PgConfigTmp

StageCheck ==
    /\ pc = "build_arguments"
    /\ Call("build_arguments")
    /\ IF environ
       THEN IF ~Truthy(condor.other_args["dbpath"])
            THEN /\ condor' = [condor EXCEPT !.other_args["dbpath"] = StagedPath]
                 /\ \E f \in Faults : pgconfig' = [pgconfig EXCEPT !.fault = f]
                 /\ pc' = "open"
            ELSE /\ pc' = "del_environ"
                 /\ UNCHANGED <<condor, pgconfig>>
       ELSE /\ pc' = "copy_loop"
            /\ UNCHANGED <<condor, pgconfig>>
    /\ UNCHANGED <<exitCode, interrupted, args, environ0, environ, dbmanager,
                   testcases, job, registry, jobinfo, arguments, jobstr,
                   scheduler, response>>
    /\ UNCHANGED <<visible, tasks>>

\* open('.pgconfig.tmp', 'w'): the file is created with the umask's mode, or
\* truncated with the mode it has; or the open fails with an IOError.
Opened(m) == [pgconfig EXCEPT !.exists = TRUE,
                              !.mode = IF pgconfig.exists THEN pgconfig.mode ELSE m,
                              !.content = <<>>]

StageOpenSwallow ==
    /\ pc = "open"
    /\ IF pgconfig.fault = "open"
       THEN /\ pc' = "del_environ"
            /\ UNCHANGED pgconfig
       ELSE /\ \E m \in CreateModes : pgconfig' = Opened(m)
            /\ pc' = "fchmod"
    /\ UNCHANGED <<exitCode, registry>>
    /\ UNCHANGED <<interrupted, args, environ0, environ, condor, dbmanager, testcases,
                   job, jobinfo, arguments, jobstr, scheduler, response, calls>>
    /\ UNCHANGED <<visible, tasks>>
StageOpen ==
    /\ pc = "open"
    /\ IF pgconfig.fault = "open"
       THEN /\ MainExcept
            /\ UNCHANGED pgconfig
       ELSE /\ \E m \in CreateModes : pgconfig' = Opened(m)
            /\ pc' = "fchmod"
            /\ UNCHANGED <<exitCode, registry>>
    /\ UNCHANGED <<interrupted, args, environ0, environ, condor, dbmanager, testcases,
                   job, jobinfo, arguments, jobstr, scheduler, response, calls>>
    /\ UNCHANGED <<visible, tasks>>

\* os.fchmod(f.fileno(), S_IRUSR | S_IWUSR), or its OSError.
StageChmodSkipped ==
    /\ pc = "fchmod"
    /\ IF pgconfig.fault = "fchmod"
       THEN /\ MainExcept
       ELSE /\ pc' = "write"
            /\ UNCHANGED <<exitCode, registry>>
    /\ UNCHANGED <<interrupted, args, environ0, environ, condor, dbmanager, testcases,
                   job, pgconfig, jobinfo, arguments, jobstr, scheduler, response, calls>>
    /\ UNCHANGED <<visible, tasks>>
StageChmod ==
    /\ pc = "fchmod"
    /\ IF pgconfig.fault = "fchmod"
       THEN /\ MainExcept
            /\ UNCHANGED pgconfig
       ELSE /\ pgconfig' = [pgconfig EXCEPT !.mode = OwnerOnly]
            /\ pc' = "write"
            /\ UNCHANGED <<exitCode, registry>>
    /\ UNCHANGED <<interrupted, args, environ0, environ, condor, dbmanager, testcases,
                   job, jobinfo, arguments, jobstr, scheduler, response, calls>>
    /\ UNCHANGED <<visible, tasks>>

\* f.write(os.environ['RUNTESTS_DB']) and the close that ends the with block,
\* or the IOError of either.
StageWrite ==
    /\ pc = "write"
    /\ IF pgconfig.fault = "write"
       THEN /\ MainExcept
            /\ UNCHANGED pgconfig
       ELSE /\ pgconfig' = [pgconfig EXCEPT !.content = SecretText]
            /\ pc' = "del_environ"
            /\ UNCHANGED <<exitCode, registry>>
    /\ UNCHANGED <<interrupted, args, environ0, environ, condor, dbmanager, testcases,
                   job, jobinfo, arguments, jobstr, scheduler, response, calls>>
    /\ UNCHANGED <<visible, tasks>>

\* del os.environ['RUNTESTS_DB']
StageDelForgotten ==
    /\ pc = "del_environ"
    /\ pc' = "copy_loop"
    /\ UNCHANGED <<exitCode, interrupted, args, environ0, environ, condor, dbmanager,
                   testcases, job, registry, pgconfig, jobinfo, arguments, jobstr,
                   scheduler, response, calls>>
    /\ UNCHANGED <<visible, tasks>>
StageDel ==
    /\ pc = "del_environ"
    /\ environ' = FALSE
    /\ pc' = "copy_loop"
    /\ UNCHANGED <<exitCode, interrupted, args, environ0, condor, dbmanager,
                   testcases, job, registry, pgconfig, jobinfo, arguments, jobstr,
                   scheduler, response, calls>>
    /\ UNCHANGED <<visible, tasks>>

\* build_arguments: the copy loop and the forced tail, in one of the orders
\* the dict can hand out its keys.
Encode ==
    /\ pc = "copy_loop"
    /\ \E order \in OptOrders :
          arguments' = BuildArguments(condor.other_args, order, condor.sub_exec, job.dbid)
    /\ pc' = "build_job"
    /\ UNCHANGED <<exitCode, interrupted, args, environ0, environ, condor, dbmanager,
                   testcases, job, registry, pgconfig, jobinfo, jobstr, scheduler,
                   response, calls>>
    /\ UNCHANGED <<visible, tasks>>

\* build_job: the job description around the encoded arguments.
BuildJob ==
    /\ pc = "build_job"
    /\ jobstr' = JobDescription(condor.machine_reqs, arguments, condor.log_all,
                                condor.log_job, job.dbid, Len(job.batches))
    /\ pc' = "submit_job"
    /\ UNCHANGED <<exitCode, interrupted, args, environ0, environ, condor, dbmanager,
                   testcases, job, registry, pgconfig, jobinfo, arguments, scheduler,
                   response, calls>>
    /\ UNCHANGED <<visible, tasks>>

\* submit_job: condor_submit is started and handed the job description, with
\* the process's environment; its output comes back.  Starting it fails with
\* an OSError when the program is missing.
SubmitInvoke ==
    /\ pc = "submit_job"
    /\ Call("submit_job")
    /\ \/ /\ scheduler' = Append(scheduler, [jobstr |-> jobstr, environ |-> environ])
          /\ \E out \in Responses : response' = out
          /\ pc' = "parse"
          /\ UNCHANGED <<exitCode, registry>>
       \/ /\ MainExcept
          /\ UNCHANGED <<scheduler, response>>
    /\ UNCHANGED <<interrupted, args, environ0, environ, condor, dbmanager, testcases,
                   job, pgconfig, jobinfo, arguments, jobstr>>
    /\ UNCHANGED <<visible, tasks>>

\* submit_job: the output is searched for the cluster identifier, which
\* run_job attaches to the job.
SubmitParseRetry ==
    /\ pc = "parse"
    /\ job' = [job EXCEPT !.condor_cluster = SubmitResult(response)]
    /\ pc' = IF SubmitResult(response) = Sentinel /\ Len(scheduler) < 2
             THEN "submit_job" ELSE "write_jobinfo"
    /\ UNCHANGED <<exitCode, interrupted, args, environ0, environ, condor, dbmanager,
                   testcases, registry, pgconfig, jobinfo, arguments, jobstr,
                   scheduler, response, calls>>
    /\ UNCHANGED <<visible, tasks>>
SubmitParseDetached ==
    /\ pc = "parse"
    /\ pc' = "write_jobinfo"
    /\ UNCHANGED <<exitCode, interrupted, args, environ0, environ, condor, dbmanager,
                   testcases, job, registry, pgconfig, jobinfo, arguments, jobstr,
                   scheduler, response, calls>>
    /\ UNCHANGED <<visible, tasks>>
SubmitParse ==
    /\ pc = "parse"
    /\ job' = [job EXCEPT !.condor_cluster = SubmitResult(response)]
    /\ pc' = "write_jobinfo"
    /\ UNCHANGED <<exitCode, interrupted, args, environ0, environ, condor, dbmanager,
                   testcases, registry, pgconfig, jobinfo, arguments, jobstr,
                   scheduler, response, calls>>
    /\ UNCHANGED <<visible, tasks>>

\* The entries of write_jobinfo; str.replace raises a TypeError when the
\* cluster identifier is not a string.
JobinfoRaises == condor.log_job /\ job.condor_cluster.kind # "str"
JobinfoEntries ==
    {<<"JOB_ID", IntText(job.dbid)>>, <<"CONDOR_ID", job.condor_cluster.text>>}
    \cup (IF condor.log_job
          THEN {<<"CONDOR_LOG",
                  Replace(LOG_JOB_FILE(job.dbid), "$(Cluster)", job.condor_cluster.text)>>}
          ELSE {})

\* write_jobinfo: the entries are made, which raises the TypeError; else
\* condor.jobinfo is opened and written, or the open raises an IOError.
WriteJobinfo ==
    /\ pc = "write_jobinfo"
    /\ IF JobinfoRaises
       THEN /\ Call("write_jobinfo")
            /\ MainExcept
            /\ UNCHANGED jobinfo
       ELSE /\ calls' = calls \o <<"write_jobinfo", "open_jobinfo">>
            /\ \/ /\ jobinfo' = JobinfoEntries
                  /\ pc' = "update_object"
                  /\ UNCHANGED <<exitCode, registry>>
               \/ /\ MainExcept
                  /\ UNCHANGED jobinfo
    /\ UNCHANGED <<interrupted, args, environ0, environ, condor, dbmanager, testcases,
                   job, pgconfig, arguments, jobstr, scheduler, response>>
    /\ UNCHANGED <<visible, tasks>>

\* run_job: the job row is updated with the cluster identifier.
UpdateObject ==
    /\ pc = "update_object"
    /\ Call("update_object")
    /\ \/ /\ registry' = UpdateRow(registry, job.condor_cluster)
          /\ pc' = "disconnect"
          /\ UNCHANGED exitCode
       \/ MainExcept
    /\ UNCHANGED <<interrupted, args, environ0, environ, condor, dbmanager, testcases,
                   job, pgconfig, jobinfo, arguments, jobstr, scheduler, response>>
    /\ UNCHANGED <<visible, tasks>>

\* run_job: the registry connection is closed.
Disconnect ==
    /\ pc = "disconnect"
    /\ Call("disconnect")
    /\ registry' = [registry EXCEPT !.connected = FALSE]
    /\ pc' = "exit"
    /\ UNCHANGED <<exitCode, interrupted, args, environ0, environ, condor, dbmanager,
                   testcases, job, pgconfig, jobinfo, arguments, jobstr, scheduler,
                   response>>
    /\ UNCHANGED <<visible, tasks>>

\* run_job: exit(0), which no handler of main catches.
RunJobExit ==
    /\ pc = "exit"
    /\ pc' = "exited"
    /\ exitCode' = 0
    /\ UNCHANGED <<interrupted, args, environ0, environ, condor, dbmanager, testcases,
                   job, registry, pgconfig, jobinfo, arguments, jobstr, scheduler,
                   response, calls>>
    /\ UNCHANGED <<visible, tasks>>

\* SIGINT before the handler is installed: KeyboardInterrupt ends the process.
\* After: the handler runs in main's thread, main standing still meanwhile;
\* it marks the run interrupted and stops the executor ...
InterruptHandlerReturns ==
    /\ pc \notin {"exited", "handler", "start"}
    /\ ~interrupted
    /\ interrupted' = TRUE
    /\ Call("interrupt_handler")
    /\ UNCHANGED <<pc, exitCode>>
    /\ UNCHANGED <<args, environ0, environ, condor, dbmanager, testcases, job,
                   registry, pgconfig, jobinfo, arguments, jobstr, scheduler,
                   response>>
    /\ UNCHANGED <<visible, tasks>>
Interrupt ==
    /\ pc \notin {"exited", "handler"}
    /\ IF pc = "start"
       THEN /\ pc' = "exited"
            /\ exitCode' = 1
            /\ UNCHANGED <<interrupted, calls>>
       ELSE /\ pc' = "handler"
            /\ interrupted' = TRUE
            /\ Call("interrupt_handler")
            /\ UNCHANGED exitCode
    /\ UNCHANGED <<args, environ0, environ, condor, dbmanager, testcases, job,
                   registry, pgconfig, jobinfo, arguments, jobstr, scheduler,
                   response>>
    /\ UNCHANGED <<visible, tasks>>

\* ... and exits with status 2 (as main's handler does when stop() raises
\* because the executor is not constructed yet).
HandlerExit ==
    /\ pc = "handler"
    /\ pc' = "exited"
    /\ exitCode' = 2
    /\ UNCHANGED <<interrupted, args, environ0, environ, condor, dbmanager, testcases,
                   job, registry, pgconfig, jobinfo, arguments, jobstr, scheduler,
                   response, calls>>
    /\ UNCHANGED <<visible, tasks>>

\* A further SIGINT while the handler runs: a warning, and the handler returns.
InterruptAgain ==
    /\ pc = "handler"
    /\ interrupted
    /\ UNCHANGED vars

Next ==
    \/ Construct
    \/ Collect
    \/ InsertTestcases
    \/ AddTestcases
    \/ CreateJob
    \/ RunJob
    \/ StageCheck
    \/ StageOpen
    \/ StageChmod
    \/ StageWrite
    \/ StageDel
    \/ Encode
    \/ BuildJob
    \/ SubmitInvoke
    \/ SubmitParse
    \/ WriteJobinfo
    \/ UpdateObject
    \/ Disconnect
    \/ RunJobExit
    \/ Interrupt
    \/ HandlerExit
    \/ InterruptAgain

Spec == Init /\ [][Next]_vars

\* ------------------------------------------------ the argument encoder
\* build_arguments alone, over every invocation that names a database and
\* supplies up to MaxSupplied further options: the state is the one run_job
\* enters build_job in, for a job without test cases.
InitCodec ==
    \E a \in CondorInvocations({"db"}, OptNames, MaxSupplied), env \in BOOLEAN,
       jid \in 1..MaxJobId, subexec \in SubExecs :
        /\ pc = "build_arguments"
        /\ exitCode = -1
        /\ interrupted = FALSE
        /\ args = a
        /\ environ0 = env
        /\ environ = env
        /\ condor = [NewCondor(a, FALSE, FALSE, subexec, 1) EXCEPT !.dbmanager = TRUE]
        /\ dbmanager = TRUE
        /\ testcases = <<>>
        /\ job = [NewJob EXCEPT !.dbid = jid]
        /\ registry = CreateRows(EmptyRegistry, jid, <<>>)
        /\ pgconfig = NoFile
        /\ jobinfo = {}
        /\ arguments = <<>>
        /\ jobstr = NoJobDescription
        /\ scheduler = <<>>
        /\ response = <<>>
        /\ calls = <<"insert_testcases", "create_job_batches_runs", "build_job">>
        /\ visible = FALSE
        /\ tasks = <<>>

NextCodec ==
    \/ StageCheck
    \/ StageOpen
    \/ StageChmod
    \/ StageWrite
    \/ StageDel
    \/ Encode

SpecCodec == InitCodec /\ [][NextCodec]_vars

\* ------------------------------------------------- the response parser
\* A run of n digits.
Run(n) == [i \in 1..n |-> DigitChar((4 * i) % 10)]
Runs(k) == {Run(n) : n \in 0..k}

\* The outputs submit_job is tried on: the terse form, each of its parts
\* right, missing or wrong, with text before and after it.
ParseResponses ==
    {pre \o c1 \o d1 \o t1 \o sep \o c2 \o d2 \o t2 \o post :
        pre \in {<<>>, <<"x">>, <<"7">>, <<"7", ".">>},
        c1 \in Runs(MaxDigits),
        d1 \in {<<".">>, <<>>, <<"x">>},
        t1 \in Runs(MaxDigits),
        sep \in {<<" ", "-", " ">>, <<"-">>, <<" ", "-">>, <<" ", " ">>},
        c2 \in Runs(MaxDigits),
        d2 \in {<<".">>, <<>>, <<"x">>},
        t2 \in Runs(1),
        post \in {<<>>, <<"\n">>, <<"9">>}}

\* submit_job's search alone: the state is the one the scheduler's output
\* arrives in, for a job without test cases.
InitParse ==
    \E out \in ParseResponses :
        /\ pc = "parse"
        /\ exitCode = -1
        /\ interrupted = FALSE
        /\ args = Invocation({"db", "executor"},
                             [o \in {"db", "executor"} |->
                                 Val("str", IF o = "db" THEN <<"p", "g">> ELSE CondorText,
                                     FALSE)])
        /\ environ0 = FALSE
        /\ environ = FALSE
        /\ condor = [NewCondor(args, FALSE, FALSE, "sequential", 1) EXCEPT !.dbmanager = TRUE]
        /\ dbmanager = TRUE
        /\ testcases = <<>>
        /\ job = [NewJob EXCEPT !.dbid = 1]
        /\ registry = CreateRows(EmptyRegistry, 1, <<>>)
        /\ pgconfig = NoFile
        /\ arguments = BuildArguments(args, OptOrderA, "sequential", 1)
        /\ jobstr = JobDescription(condor.machine_reqs, arguments, FALSE, FALSE, 1, 0)
        /\ jobinfo = {}
        /\ scheduler = <<[jobstr |-> jobstr, environ |-> FALSE]>>
        /\ response = out
        /\ calls = <<"insert_testcases", "create_job_batches_runs", "build_job",
                     "build_arguments", "submit_job">>
        /\ visible = FALSE
        /\ tasks = <<>>

NextParse == SubmitParse

SpecParse == InitParse /\ [][NextParse]_vars

\* ------------------------------------------------------ the array tasks
\* How often a loader that waits for its batch reads the registry again
\* before it gives up.
MaxRetries == 2

\* The scheduler's expansion of $(Process) in the arguments of array task i.
ExpandProcess(t, i) == Replace(t, "$(Process)", IntText(i))

\* The argument that follows the word flag among the tokens handed to the
\* scheduler, as the array task's parser reads it; <<>> when flag is absent.
ArgumentAfter(toks, flag) ==
    LET at == {k \in 1..(Len(toks) - 1) : toks[k] = Word(flag)}
    IN  IF at = {} THEN <<>>
        ELSE LET k == CHOOSE n \in at : \A o \in at : n <= o
             IN  IF toks[k + 1].kind = "word" THEN <<toks[k + 1].w>> ELSE toks[k + 1].q

\* str.partition(','): the text before the first comma and the text after it;
\* the whole text and an empty one when there is no comma.
PartitionComma(t) ==
    LET at == {k \in 1..Len(t) : t[k] = ","}
    IN  IF at = {} THEN <<t, <<>>>>
        ELSE LET k == CHOOSE n \in at : \A o \in at : n <= o
             IN  <<SubSeq(t, 1, k - 1), SubSeq(t, k + 1, Len(t))>>

\* int() of a text of decimal digits; a ValueError for any other text.
DigitValue(c) == CHOOSE d \in 0..9 : DigitChar(d) = c
RECURSIVE DigitsValue(_)
DigitsValue(t) ==
    IF t = <<>> THEN 0
    ELSE 10 * DigitsValue(SubSeq(t, 1, Len(t) - 1)) + DigitValue(t[Len(t)])
IntOf(t) ==
    IF t # <<>> /\ \A k \in 1..Len(t) : t[k] \in Digits
    THEN [ok |-> TRUE, n |-> DigitsValue(t)]
    ELSE [ok |-> FALSE, n |-> 0]

\* main's reading of args.batch: job_id, _, batch_idx = args.batch.partition(',')
\* and int() of both.
ParseBatchSwapped(t) ==
    LET p == PartitionComma(t)
    IN  [ok |-> IntOf(p[1]).ok /\ IntOf(p[2]).ok,
         job_id |-> IntOf(p[2]).n, batch_idx |-> IntOf(p[1]).n]
ParseBatch(t) ==
    LET p == PartitionComma(t)
    IN  [ok |-> IntOf(p[1]).ok /\ IntOf(p[2]).ok,
         job_id |-> IntOf(p[1]).n, batch_idx |-> IntOf(p[2]).n]

\* load_batch_tests: the rows (test-case identity, path, batch identity) of
\* the test cases of the batch batch_idx of the job job_id; none when the
\* registry holds no such batch.
LoadBatchRows(reg, job_id, batch_idx) ==
    IF reg.job # 0 /\ reg.job = job_id /\ batch_idx + 1 \in 1..Len(reg.batches)
    THEN [k \in 1..Len(reg.batches[batch_idx + 1]) |->
             <<reg.batches[batch_idx + 1][k],
               reg.tests[reg.batches[batch_idx + 1][k]],
               batch_idx + 1>>]
    ELSE <<>>

\* What the connection of a task's manager does at its read: it answers, or
\* it fails.
TaskFaults == {"none", "load"}

\* An array task the scheduler has not started yet: whether its invocation
\* names a database (one started by hand may not), and its connection's fault.
NewTask(db, fault) ==
    [pc |-> "idle", batch |-> <<>>, executor |-> <<>>, db |-> db, fault |-> fault,
     dbmanager |-> FALSE, wait_for_batch |-> FALSE, job_id |-> 0, batch_idx |-> 0,
     retries |-> 0, tests |-> <<>>, testcases |-> <<>>,
     exitCode |-> -1, calls |-> {}]

\* What no array task touches.
CoordinatorUnchanged ==
    UNCHANGED <<pc, exitCode, interrupted, args, environ0, environ, condor, dbmanager,
                testcases, job, pgconfig, jobinfo, arguments, jobstr, scheduler,
                response, calls>>

\* An uncaught exception in the array task i: main's handler exits with 2.
TaskExcept(i) == tasks' = [tasks EXCEPT ![i].pc = "exited", ![i].exitCode = 2]

\* The scheduler starts array task i with the arguments of the job
\* description, $(Process) expanded to i.
TaskSpawn(i) ==
    /\ tasks[i].pc = "idle"
    /\ scheduler # <<>>
    /\ LET toks == scheduler[1].jobstr.arguments
       IN  tasks' = [tasks EXCEPT
                        ![i].pc = "start",
                        ![i].batch = ExpandProcess(ArgumentAfter(toks, "--batch"), i),
                        ![i].executor = ArgumentAfter(toks, "-x")]
    /\ UNCHANGED <<registry, visible>>
    /\ CoordinatorUnchanged

\* main in the array task: the executor is constructed and the manager made.
TaskConstruct(i) ==
    /\ tasks[i].pc = "start"
    /\ tasks' = [tasks EXCEPT ![i].pc = "batch", ![i].dbmanager = tasks[i].db]
    /\ UNCHANGED <<registry, visible>>
    /\ CoordinatorUnchanged

\* main with args.batch: without a manager a ValueError; with one,
\* wait_for_batch is set and the batch reference parsed (int() may raise).
TaskBatchNoWait(i) ==
    /\ tasks[i].pc = "batch"
    /\ LET b == ParseBatch(tasks[i].batch)
       IN  IF ~tasks[i].dbmanager \/ ~b.ok
           THEN TaskExcept(i)
           ELSE tasks' = [tasks EXCEPT ![i].pc = "load",
                                       ![i].job_id = b.job_id,
                                       ![i].batch_idx = b.batch_idx]
    /\ UNCHANGED <<registry, visible>>
    /\ CoordinatorUnchanged
TaskBatch(i) ==
    /\ tasks[i].pc = "batch"
    /\ LET b == ParseBatch(tasks[i].batch)
       IN  IF ~tasks[i].dbmanager
           THEN TaskExcept(i)
           ELSE IF ~b.ok
           THEN tasks' = [tasks EXCEPT ![i].pc = "exited", ![i].exitCode = 2,
                                       ![i].wait_for_batch = TRUE]
           ELSE tasks' = [tasks EXCEPT ![i].pc = "load",
                                       ![i].wait_for_batch = TRUE,
                                       ![i].job_id = b.job_id,
                                       ![i].batch_idx = b.batch_idx]
    /\ UNCHANGED <<registry, visible>>
    /\ CoordinatorUnchanged

\* load_batch_tests with wait_for_batch: a read that finds the batch's rows
\* returns them; one that finds none is repeated, up to MaxRetries times, and
\* then an error is raised.  Without wait_for_batch the first read's rows are
\* returned, however few.
TaskLoad(i) ==
    /\ tasks[i].pc = "load"
    /\ LET t == tasks[i]
           rows == IF visible THEN LoadBatchRows(registry, t.job_id, t.batch_idx)
                   ELSE <<>>
           read == [t EXCEPT !.calls = t.calls \cup {"load_batch_tests"}]
       IN  tasks' = [tasks EXCEPT ![i] =
              IF t.fault = "load"
              THEN [read EXCEPT !.pc = "exited", !.exitCode = 2]
              ELSE IF rows # <<>> \/ ~t.wait_for_batch
              THEN [read EXCEPT !.pc = "tests", !.tests = rows]
              ELSE IF t.retries < MaxRetries
              THEN [read EXCEPT !.retries = t.retries + 1]
              ELSE [read EXCEPT !.pc = "exited", !.exitCode = 2]]
    /\ UNCHANGED <<registry, visible>>
    /\ CoordinatorUnchanged

\* main with args.batch: tests[0][2] raises an IndexError for an empty batch;
\* else the test cases are made from the rows and job.add_testcases takes
\* them.  create_job_batches_runs follows when create holds.
TaskTestsIf(i, create) ==
    /\ tasks[i].pc = "tests"
    /\ LET t == tasks[i]
           tcs == [k \in 1..Len(t.tests) |->
                      [path |-> t.tests[k][2], dbid |-> t.tests[k][1]]]
       IN  IF t.tests = <<>>
           THEN /\ TaskExcept(i)
                /\ UNCHANGED registry
           ELSE /\ tasks' = [tasks EXCEPT
                               ![i].pc = "run_job",
                               ![i].testcases = tcs,
                               ![i].calls =
                                   IF create
                                   THEN t.calls \cup {"create_job_batches_runs"}
                                   ELSE t.calls]
                /\ registry' = IF create
                               THEN CreateRows(registry, t.job_id, <<tcs>>)
                               ELSE registry
    /\ UNCHANGED visible
    /\ CoordinatorUnchanged

\* "if dbmanager and not args.batch": args.batch, a text, is true unless empty.
TaskTestsCreates(i) == TaskTestsIf(i, tasks[i].dbmanager)
TaskTests(i) == TaskTestsIf(i, tasks[i].dbmanager /\ tasks[i].batch = <<>>)

\* main in the array task: executor.run_job(job).  A local executor runs the
\* test cases and main exits with the printer's status.  The Condor executor
\* dispatches again: it submits, updates the job row with what submit_job
\* returned and exits with 0, or ends on an exception.
TaskRunJob(i) ==
    /\ tasks[i].pc = "run_job"
    /\ IF tasks[i].executor = <<"condor">>
       THEN \/ \E out \in Responses :
                 /\ registry' = UpdateRow(registry, SubmitResult(out))
                 /\ tasks' = [tasks EXCEPT
                                ![i].pc = "exited", ![i].exitCode = 0,
                                ![i].calls = tasks[i].calls \cup
                                                {"submit_job", "update_object"}]
            \/ /\ TaskExcept(i)
               /\ UNCHANGED registry
       ELSE /\ \E code \in {0, 1} :
                 tasks' = [tasks EXCEPT ![i].pc = "exited", ![i].exitCode = code]
            /\ UNCHANGED registry
    /\ UNCHANGED visible
    /\ CoordinatorUnchanged

\* The rows the coordinator committed become visible to the remote readers.
BecomeVisible ==
    /\ ~visible
    /\ visible' = TRUE
    /\ UNCHANGED <<registry, tasks>>
    /\ CoordinatorUnchanged

\* The array indices a job of this model can have.
TaskIds == 0..(MaxPaths - 1)

\* The state in which write_jobinfo has returned in the coordinator, for the
\* test cases tcs and a terse answer of the scheduler: the rows are written,
\* the array job is with the scheduler and none of its tasks has started.
BatchStartup(tcs, bsize, jid, subexec, kinds) ==
    LET a == Invocation({"db", "executor"},
                        [o \in {"db", "executor"} |->
                            Val("str", IF o = "db" THEN <<"p", "g">> ELSE CondorText,
                                FALSE)])
        ts == WithIdentities(EmptyRegistry, tcs)
        bs == Partition(ts, bsize)
        toks == BuildArguments(a, OptOrderA, subexec, jid)
        c == [NewCondor(a, FALSE, FALSE, subexec, bsize) EXCEPT !.dbmanager = TRUE]
        out == TerseResponse
        js == JobDescription(c.machine_reqs, toks, FALSE, FALSE, jid, Len(bs))
    IN  /\ pc = "update_object"
        /\ exitCode = -1
        /\ interrupted = FALSE
        /\ args = a
        /\ environ0 = FALSE
        /\ environ = FALSE
        /\ condor = c
        /\ dbmanager = TRUE
        /\ testcases = ts
        /\ job = [dbid |-> jid, batches |-> bs, condor_cluster |-> SubmitResult(out)]
        /\ registry = CreateRows(InsertRows(EmptyRegistry, tcs), jid, bs)
        /\ pgconfig = NoFile
        /\ jobinfo = {<<"JOB_ID", IntText(jid)>>, <<"CONDOR_ID", SubmitResult(out).text>>}
        /\ arguments = toks
        /\ jobstr = js
        /\ scheduler = <<[jobstr |-> js, environ |-> FALSE]>>
        /\ response = out
        /\ calls = <<"insert_testcases", "create_job_batches_runs", "build_job",
                     "build_arguments", "submit_job", "write_jobinfo", "open_jobinfo">>
        /\ visible = FALSE
        /\ tasks = [i \in 0..(js.queue - 1) |-> NewTask(kinds[i].db, kinds[i].fault)]

InitBatch ==
    \E paths \in PathLists, bsize \in 1..MaxBatchSize, jid \in 1..MaxJobId,
       subexec \in SubExecs,
       kinds \in [TaskIds -> [db : BOOLEAN, fault : TaskFaults]] :
        /\ get_testcases_from_paths(paths, {}).ok
        /\ BatchStartup(get_testcases_from_paths(paths, {}).tcs, bsize, jid, subexec,
                        kinds)

NextBatch ==
    \/ UpdateObject
    \/ Disconnect
    \/ RunJobExit
    \/ BecomeVisible
    \/ \E i \in DOMAIN tasks : TaskSpawn(i)
    \/ \E i \in DOMAIN tasks : TaskConstruct(i)
    \/ \E i \in DOMAIN tasks : TaskBatch(i)
    \/ \E i \in DOMAIN tasks : TaskLoad(i)
    \/ \E i \in DOMAIN tasks : TaskTests(i)
    \/ \E i \in DOMAIN tasks : TaskRunJob(i)

SpecBatch == InitBatch /\ [][NextBatch]_vars

\* A step of the array task i, which the scheduler keeps running.
TaskStep(i) ==
    /\ i \in DOMAIN tasks
    /\ \/ TaskSpawn(i) \/ TaskConstruct(i) \/ TaskBatch(i)
       \/ TaskLoad(i) \/ TaskTests(i) \/ TaskRunJob(i)

\* The same, for jobs of one test case per batch run by the default executor,
\* with every array task taking its steps for as long as it has one to take.
InitWait ==
    \E paths \in PathLists, kinds \in [TaskIds -> [db : BOOLEAN, fault : TaskFaults]] :
        /\ get_testcases_from_paths(paths, {}).ok
        /\ BatchStartup(get_testcases_from_paths(paths, {}).tcs, 1, MaxJobId,
                        "sequential", kinds)

SpecBatchFair ==
    InitWait /\ [][NextBatch]_vars /\ \A i \in TaskIds : WF_vars(TaskStep(i))

\* =============================================================== claims
RegistryWrites == {"insert_testcases", "create_job_batches_runs", "update_object"}

Called(op) == \E i \in 1..Len(calls) : calls[i] = op

\* The first position of op among the calls, 0 when it was never invoked.
FirstCall(op) ==
    IF Called(op) THEN CHOOSE i \in 1..Len(calls) :
                           calls[i] = op /\ \A k \in 1..(i - 1) : calls[k] # op
    ELSE 0

\* The rows of the job, of its batches and of its test cases are in the
\* registry.
RowsWritten ==
    /\ job.dbid # 0
    /\ registry.job = job.dbid
    /\ \A i \in 1..Len(testcases) :
          /\ testcases[i].dbid \in 1..Len(registry.tests)
          /\ registry.tests[testcases[i].dbid] = testcases[i].path
    /\ Len(registry.batches) = Len(job.batches)
    /\ \A b \in 1..Len(job.batches) :
          registry.batches[b] = [k \in 1..Len(job.batches[b]) |-> job.batches[b][k].dbid]

\* C1: the scheduler is invoked only after insert_testcases and
\* create_job_batches_runs were both invoked and their rows are written: in no
\* state has submit_job been invoked, or the scheduler been handed the job,
\* while the rows of the job, its batches and its test cases are missing.
C1_HappensBefore ==
    (Called("submit_job") \/ scheduler # <<>>) =>
        /\ RowsWritten
        /\ 0 < FirstCall("insert_testcases")
        /\ FirstCall("insert_testcases") < FirstCall("create_job_batches_runs")
        /\ FirstCall("create_job_batches_runs") < FirstCall("submit_job")

C1_Witness ==
    /\ Len(scheduler) = 1
    /\ Len(testcases) = 2
    /\ Len(registry.batches) = 2

\* C2: with no test case collected there is no batch, and neither build_job
\* nor submit_job is ever invoked.
C2_ZeroWorkShortCircuit ==
    (testcases = <<>>) =>
        /\ job.batches = <<>>
        /\ ~Called("build_job")
        /\ ~Called("submit_job")
        /\ scheduler = <<>>

\* C3: without a manager handed to the executor, no registry write and no
\* submission is ever invoked, the run never gets past run_job, it can always
\* take a step until it has exited, and it exits with a status other than 0.
C3_ConfigurationError ==
    (~condor.dbmanager) =>
        /\ \A op \in RegistryWrites \cup {"build_job", "submit_job"} : ~Called(op)
        /\ registry = EmptyRegistry
        /\ scheduler = <<>>
        /\ pc \in {"start", "collect", "insert", "add_testcases", "create_job",
                   "run_job", "handler", "exited"}
        /\ (pc = "exited" => exitCode \in {1, 2})
        /\ (pc # "exited" => ENABLED Next)

C3_Witness ==
    /\ pc = "exited"
    /\ ~condor.dbmanager
    /\ ~interrupted
    /\ exitCode = 2
    /\ Len(job.batches) = 2

\* C4: a run in which submit_job returned the failure sentinel never exits
\* with status 0.
C4_SubmissionErrorFatal ==
    (pc = "exited" /\ job.condor_cluster = Sentinel) => exitCode # 0

\* C5: once the job's rows are written, no step of the coordinator changes
\* the test-case rows, the job row's identity or the batches' test cases.
C5_NoRollback ==
    [][registry.job # 0 =>
          /\ registry'.tests = registry.tests
          /\ registry'.job = registry.job
          /\ registry'.batches = registry.batches]_vars

\* A run that failed after the rows were written: the scheduler program was
\* missing.
C5_Witness ==
    /\ pc = "exited"
    /\ exitCode = 2
    /\ ~interrupted
    /\ Called("submit_job")
    /\ scheduler = <<>>
    /\ registry.job # 0
    /\ Len(registry.batches) = 2
    /\ Len(registry.tests) = 2

\* The characters lo..hi of t are all digits; the character k of t is ch.
AllDigits(t, lo, hi) == hi <= Len(t) /\ \A k \in lo..hi : t[k] \in Digits
CharAt(t, k, ch) == k <= Len(t) /\ t[k] = ch

\* The terse form, digits "." digits " - " digits "." digits, stands in t
\* from position i to position j, its first run of digits a characters long.
TerseAt(t, i, a, j) ==
    /\ AllDigits(t, i, i + a - 1)
    /\ CharAt(t, i + a, ".")
    /\ \E b \in 1..Len(t) :
          LET p == i + a + 1 + b
          IN  /\ AllDigits(t, i + a + 1, p - 1)
              /\ CharAt(t, p, " ") /\ CharAt(t, p + 1, "-") /\ CharAt(t, p + 2, " ")
              /\ \E c \in 1..Len(t) :
                    /\ AllDigits(t, p + 3, p + 2 + c)
                    /\ CharAt(t, p + 3 + c, ".")
                    /\ p + 4 + c <= j
                    /\ AllDigits(t, p + 4 + c, j)

\* The whole text is the terse form, its cluster identifier a characters long.
IsTerse(t, a) == TerseAt(t, 1, a, Len(t))

\* The terse form occurs somewhere in the text.
ContainsTerse(t) ==
    \E i \in 1..Len(t), j \in 1..Len(t), a \in 1..Len(t) : TerseAt(t, i, a, j)

\* C6: for a response that is the terse form, submit_job returns the text
\* of its leading cluster identifier; for a response in which the form does
\* not occur, it returns the sentinel 0.
C6_ResponseParsing ==
    (pc = "write_jobinfo") =>
        /\ \A a \in 1..Len(response) :
              IsTerse(response, a) =>
                  job.condor_cluster = Val("str", SubSeq(response, 1, a), FALSE)
        /\ ~ContainsTerse(response) => job.condor_cluster = Sentinel

C6_Witness ==
    /\ pc = "write_jobinfo"
    /\ IsTerse(response, 2)
    /\ job.condor_cluster.text = <<"4", "8">>

\* build_arguments has returned: its tokens are there.
Encoded == arguments # <<>>

Flag(o) == Word("--" \o o)
FlagPositions(o) == {i \in 1..Len(arguments) : arguments[i] = Flag(o)}

\* The tokens before the forced tail of four.
CopiedPart == 1..(Len(arguments) - 4)

\* C7: the encoded arguments hold a flag only for allow-listed options: each
\* token before the forced tail is the flag of an allow-listed option or a
\* quoted value, the tail is "-x", the executor, "--batch" and the batch
\* token, and the flag of no other option occurs anywhere before the tail.
C7_AllowListClosure ==
    Encoded =>
        /\ Len(arguments) >= 4
        /\ \A i \in CopiedPart :
              \/ \E o \in ARGS_TO_COPY : arguments[i] = Flag(o)
              \/ arguments[i].kind = "quoted"
        /\ \A o \in OptNames \ ARGS_TO_COPY : FlagPositions(o) \cap CopiedPart = {}
        /\ arguments[Len(arguments) - 3] = Word("-x")
        /\ arguments[Len(arguments) - 2] = Word(condor.sub_exec)
        /\ arguments[Len(arguments) - 1] = Word("--batch")
        /\ arguments[Len(arguments)].kind = "text"

\* An invocation that sets an option outside the allow-list and one inside.
C7_Witness ==
    /\ Encoded
    /\ args["title"].text = <<"a">>
    /\ args["timeout"].text = <<"6", "0">>
    /\ FlagPositions("timeout") # {}

\* The text a quoted token stands for: the outer quotes dropped and every
\* doubled quote read as one; <<"?">> when the token is not so formed.
RECURSIVE Undouble(_)
Undouble(t) ==
    IF t = <<>> THEN <<>>
    ELSE IF Head(t) # "'" THEN <<Head(t)>> \o Undouble(Tail(t))
    ELSE IF Len(t) >= 2 /\ t[2] = "'" THEN <<"'">> \o Undouble(Tail(Tail(t)))
    ELSE <<"?">>

Unquote(q) ==
    IF Len(q) >= 2 /\ q[1] = "'" /\ q[Len(q)] = "'"
    THEN Undouble(SubSeq(q, 2, Len(q) - 1))
    ELSE <<"?">>

SameValue(v, w) == v.kind = w.kind /\ v.text = w.text

\* The flag of o is absent from the encoded arguments.
Suppressed(o) == FlagPositions(o) = {}

\* The flag of o occurs once, followed by the quoted text of v, or by no
\* quoted token at all when v is a boolean.
Rendered(o, v) ==
    /\ Cardinality(FlagPositions(o)) = 1
    /\ \A i \in FlagPositions(o) :
          IF v.kind = "bool"
          THEN arguments[i + 1].kind # "quoted"
          ELSE arguments[i + 1].kind = "quoted" /\ Unquote(arguments[i + 1].q) = v.text

\* C8 as claimed: an allow-listed option the invocation left at its default
\* has no flag, one the invocation gave another value has its flag, with the
\* quoted value unless it is a boolean.
C8_DefaultSuppression ==
    Encoded =>
        \A o \in ARGS_TO_COPY :
            /\ args[o].isdef => Suppressed(o)
            /\ ~SameValue(args[o], Default(o)) => Rendered(o, args[o])

\* The staging of the credential gives an empty dbpath the file's path.
StagedDbpath(o) == o = "dbpath" /\ environ0 /\ ~Truthy(args[o])

\* C8 as amended: the same, except for a dbpath the staging replaced, whose
\* flag is there with the quoted path of the credential file.
C8_DefaultSuppressionAmended ==
    Encoded =>
        \A o \in ARGS_TO_COPY :
            IF StagedDbpath(o)
            THEN Rendered(o, PgConfigTmp)
            ELSE /\ args[o].isdef => Suppressed(o)
                 /\ ~SameValue(args[o], Default(o)) => Rendered(o, args[o])

\* A boolean toggle set and a text with a quote in it given.
C8_Witness ==
    /\ Encoded
    /\ args["stats"].text = TrueText
    /\ args["interp_path"].text = <<"a", "'", "b">>
    /\ Rendered("stats", args["stats"])
    /\ Suppressed("timeout")

\* The characters of sub occur in t, in a row.
ContainsText(t, sub) ==
    \E i \in 1..(Len(t) - Len(sub) + 1) : SubSeq(t, i, i + Len(sub) - 1) = sub

NoSecretIn(toks) == \A i \in 1..Len(toks) : ~ContainsText(toks[i].q, SecretText)

\* C9: when RUNTESTS_DB was set and no dbpath configured, then once
\* build_arguments has returned the variable is out of the environment, the
\* arguments hold --dbpath with the credential file's path and nowhere the
\* secret, the file holds the secret and only its owner may read or write it;
\* and whatever the scheduler was handed came without the variable and without
\* the secret.
C9_CredentialRedaction ==
    (Encoded /\ environ0 /\ ~Truthy(args["dbpath"])) =>
        /\ ~environ
        /\ Rendered("dbpath", PgConfigTmp)
        /\ NoSecretIn(arguments)
        /\ pgconfig.exists
        /\ pgconfig.content = SecretText
        /\ pgconfig.mode = OwnerOnly
        /\ \A i \in 1..Len(scheduler) :
              /\ ~scheduler[i].environ
              /\ NoSecretIn(scheduler[i].jobstr.arguments)

C9_Witness ==
    /\ Len(scheduler) = 1
    /\ environ0
    /\ args["dbpath"].isdef
    /\ pgconfig.content = SecretText
    /\ Rendered("dbpath", PgConfigTmp)

\* C10: when the credential file cannot be opened, restricted or written,
\* build_arguments never returns, the scheduler is never invoked, and the
\* process exits with a status other than 0.
C10_SecretHandlingError ==
    (pgconfig.fault # "none") =>
        /\ ~Encoded
        /\ ~Called("submit_job")
        /\ scheduler = <<>>
        /\ pc \in {"open", "fchmod", "write", "handler", "exited"}
        /\ (pc = "exited" => exitCode # 0)
        /\ (pc # "exited" => ENABLED Next)

\* The write of the secret failed and the run ended on main's handler.
C10_Witness ==
    /\ pgconfig.fault = "write"
    /\ pgconfig.exists
    /\ pc = "exited"
    /\ ~interrupted
    /\ exitCode = 2

\* How often the token tok occurs among the encoded arguments.
Occurrences(tok) == Cardinality({i \in 1..Len(arguments) : arguments[i] = tok})

\* C11: every argument list build_arguments returns ends with "-x", the
\* executor's sub_exec, "--batch" and the token "<job identity>,$(Process)",
\* the job identity being the one the registry holds for the job; the "-x"
\* and the "--batch" flags and the batch token occur once each.
C11_BatchScopeAppended ==
    Encoded =>
        /\ Len(arguments) >= 4
        /\ SubSeq(arguments, Len(arguments) - 3, Len(arguments)) =
              <<Word("-x"), Word(condor.sub_exec), Word("--batch"),
                Text(IntText(registry.job) \o <<",", "$(Process)">>)>>
        /\ registry.job = job.dbid
        /\ Occurrences(Word("-x")) = 1
        /\ Occurrences(Word("--batch")) = 1
        /\ Cardinality({i \in 1..Len(arguments) : arguments[i].kind = "text"}) = 1

\* An invocation that supplies a batch reference and a title of its own, for
\* the second job identity: neither is copied, and the tail is appended.
C11_Witness ==
    /\ Encoded
    /\ job.dbid = 2
    /\ Truthy(args["batch"])
    /\ Len(arguments) > 4
    /\ arguments[Len(arguments)] = Text(<<"2", ",", "$(Process)">>)

\* The array task i has parsed its batch reference; it has loaded its batch.
TaskParsed(i) == tasks[i].pc = "load" \/ "load_batch_tests" \in tasks[i].calls
TaskLoaded(i) == tasks[i].testcases # <<>>

\* The identities of the test cases the array task i loaded.
LoadedIds(i) == {tasks[i].testcases[k].dbid : k \in 1..Len(tasks[i].testcases)}

\* C12: the array has one task per batch of the job; a task that has parsed
\* its batch reference holds the job's identity and its own array index; the
\* rows it was given and the test cases it made of them are those of its batch
\* as the coordinator partitioned and persisted them; the test cases of two
\* tasks never overlap, and once every task has loaded, together they are the
\* job's test cases.
C12_BatchScopingRoundTrip ==
    /\ DOMAIN tasks = 0..(Len(job.batches) - 1)
    /\ \A i \in DOMAIN tasks :
          /\ TaskParsed(i) => (tasks[i].job_id = job.dbid /\ tasks[i].batch_idx = i)
          /\ tasks[i].tests # <<>> =>
                /\ Len(tasks[i].tests) = Len(job.batches[i + 1])
                /\ \A k \in 1..Len(tasks[i].tests) :
                      /\ tasks[i].tests[k][1] = job.batches[i + 1][k].dbid
                      /\ tasks[i].tests[k][2] = job.batches[i + 1][k].path
          /\ TaskLoaded(i) =>
                /\ tasks[i].testcases = job.batches[i + 1]
                /\ LoadedIds(i) = {registry.batches[i + 1][k] :
                                      k \in 1..Len(registry.batches[i + 1])}
    /\ \A i \in DOMAIN tasks : \A j \in DOMAIN tasks \ {i} :
          LoadedIds(i) \cap LoadedIds(j) = {}
    /\ (\A i \in DOMAIN tasks : TaskLoaded(i)) =>
          UNION {LoadedIds(i) : i \in DOMAIN tasks} =
              {testcases[k].dbid : k \in 1..Len(testcases)}

\* Both tasks of an array of two have loaded their batch, for the second job
\* identity, the second task first.
C12_Witness ==
    /\ DOMAIN tasks = {0, 1}
    /\ job.dbid = 2
    /\ tasks[1].pc = "exited"
    /\ tasks[1].exitCode = 0
    /\ tasks[0].pc = "run_job"
    /\ tasks[0].retries > 0
    /\ TaskLoaded(0) /\ TaskLoaded(1)
    /\ LoadedIds(0) = {1} /\ LoadedIds(1) = {2}

\* The array task i has ended without having been given its batch's rows
\* although its connection answered every read.
TaskGaveUp(i) ==
    /\ tasks[i].pc = "exited"
    /\ "load_batch_tests" \in tasks[i].calls
    /\ tasks[i].fault = "none"
    /\ tasks[i].tests = <<>>

\* Where the array task i stands; "none" when the array has no such task.
TaskPc(i) == IF i \in DOMAIN tasks THEN tasks[i].pc ELSE "none"

\* What holds of every array task in every state: its registry read comes
\* after wait_for_batch was set; it reaches run_job only with the test cases
\* of a batch; it gives up only after MaxRetries repeated reads, and then with
\* a status other than 0.
WaitsForBatch ==
    \A i \in DOMAIN tasks :
        /\ "load_batch_tests" \in tasks[i].calls => tasks[i].wait_for_batch
        /\ tasks[i].pc = "load" => tasks[i].wait_for_batch
        /\ tasks[i].pc = "run_job" => tasks[i].testcases # <<>>
        /\ (tasks[i].pc = "exited" /\ tasks[i].exitCode \in {0, 1}) =>
              tasks[i].testcases # <<>>
        /\ TaskGaveUp(i) =>
              (tasks[i].retries = MaxRetries /\ tasks[i].exitCode = 2)

\* C13: a batch invocation sets wait_for_batch before it reads the registry
\* and never runs without test cases; a loader whose rows are visible and
\* whose connection answers gets to run_job; and every loader leaves its
\* reading, with the rows or, the retries used up, with exit status 2.
C13_HappensBeforeRetry ==
    /\ []WaitsForBatch
    /\ \A i \in TaskIds :
          /\ (TaskPc(i) = "load" /\ visible /\ tasks[i].fault = "none")
                ~> (TaskPc(i) = "run_job")
          /\ (TaskPc(i) = "load") ~> (TaskPc(i) \in {"tests", "exited"})

\* The rows became visible after the second task had read twice in vain: it
\* went on to run its batch, while the first task had given up before.
C13_Witness ==
    /\ DOMAIN tasks = {0, 1}
    /\ visible
    /\ TaskGaveUp(0)
    /\ tasks[0].exitCode = 2
    /\ tasks[1].retries = MaxRetries
    /\ tasks[1].pc = "run_job"
    /\ TaskLoaded(1)

\* The position of the interrupt handler's call among the calls, 0 when the
\* handler never ran; whether the submission had been invoked before it.
InterruptedAt == FirstCall("interrupt_handler")
SubmittedBefore(k) == \E n \in 1..(k - 1) : calls[n] = "submit_job"

\* C14: once the interrupt handler has run without submit_job having been
\* invoked before, nothing is invoked after it (no registry write, no
\* submission), the scheduler has been handed nothing, and the run is in the
\* handler, which can exit, or has exited with status 2.  An interrupt before
\* the handler is installed ends the run at once, before any call.
C14_InterruptBeforeSubmission ==
    /\ (InterruptedAt # 0 /\ ~SubmittedBefore(InterruptedAt)) =>
          /\ InterruptedAt = Len(calls)
          /\ scheduler = <<>>
          /\ pc \in {"handler", "exited"}
          /\ (pc = "handler" => ENABLED HandlerExit)
          /\ (pc = "exited" => exitCode = 2)
    /\ (pc = "exited" /\ exitCode = 1) => (calls = <<>> /\ scheduler = <<>>)
    /\ interrupted <=> InterruptedAt # 0

\* Interrupted between the registration of two test cases and the persisting
\* of the job: the run has exited, the job's rows never written.
C14_Witness ==
    /\ pc = "exited"
    /\ exitCode = 2
    /\ interrupted
    /\ calls = <<"insert_testcases", "interrupt_handler">>
    /\ Len(registry.tests) = 2
    /\ registry.job = 0

\* The array task i ends on an exception in this step, before run_job: it had
\* no manager, its read failed or timed out, or its batch was empty.
FailsEarly(i) ==
    /\ tasks[i].pc \in {"batch", "load", "tests"}
    /\ tasks'[i].pc = "exited"

\* C15: no array task ever calls insert_testcases or create_job_batches_runs,
\* and a task that is to read is never kept from reading; no step changes the
\* test-case rows, the job row's identity or the batches, so what a sibling's
\* load_batch returns stays the same; and a step in which a task fails before
\* run_job changes nothing in the registry and nothing of any other task.
C15_SiblingIsolation ==
    /\ [](\A i \in DOMAIN tasks :
            /\ tasks[i].calls \cap {"insert_testcases", "create_job_batches_runs"} = {}
            /\ tasks[i].pc = "load" => ENABLED TaskLoad(i))
    /\ [][/\ registry'.tests = registry.tests
          /\ registry'.job = registry.job
          /\ registry'.batches = registry.batches
          /\ \A i \in DOMAIN tasks : \A b \in TaskIds :
                LoadBatchRows(registry', tasks[i].job_id, b) =
                    LoadBatchRows(registry, tasks[i].job_id, b)
          /\ \A i \in DOMAIN tasks :
                FailsEarly(i) =>
                    /\ registry' = registry
                    /\ \A j \in DOMAIN tasks \ {i} : tasks'[j] = tasks[j]]_vars

\* The first task had no manager and failed; the second, whose read came
\* after, has loaded its batch and run it.
C15_Witness ==
    /\ DOMAIN tasks = {0, 1}
    /\ ~tasks[0].db
    /\ tasks[0].pc = "exited"
    /\ tasks[0].exitCode = 2
    /\ tasks[1].pc = "exited"
    /\ tasks[1].exitCode = 0
    /\ TaskLoaded(1)
    /\ registry.batches = <<<<1>>, <<2>>>>

\* submit_job has returned: run_job has attached what it returned to the job.
SubmitReturned == job.condor_cluster # NoCluster

\* condor.jobinfo was opened for writing and the open failed.
JobinfoOpenFailed ==
    Called("open_jobinfo") /\ jobinfo = {} /\ pc \in {"exited", "handler"}

\* The job-information file holds the job identity, the cluster identity
\* and, with per-job logging, the log path with $(Cluster) resolved.
JobinfoWritten ==
    /\ <<"JOB_ID", IntText(job.dbid)>> \in jobinfo
    /\ <<"CONDOR_ID", job.condor_cluster.text>> \in jobinfo
    /\ condor.log_job =>
          <<"CONDOR_LOG", <<"job_">> \o IntText(job.dbid) \o <<"_condor_">>
                           \o job.condor_cluster.text \o <<".log">>>> \in jobinfo

\* C16: a run in which submit_job returned and which exited without being
\* interrupted, the directory being writable, has written the
\* job-information file, whatever submit_job returned and whatever the
\* logging toggles.
C16_LocalRecord ==
    (pc = "exited" /\ SubmitReturned /\ ~interrupted /\ ~JobinfoOpenFailed) =>
        JobinfoWritten

\* How often op was invoked.
CallCount(op) == Cardinality({n \in 1..Len(calls) : calls[n] = op})

\* The submission succeeded: the scheduler's answer held a cluster identifier.
SubmissionSucceeded == response # <<>> /\ SubmitResult(response) # Sentinel

\* C17: update_object is invoked at most once, never before submit_job and
\* always before disconnect; once it has returned, the job and its row hold
\* what submit_job returned; and a run whose submission succeeded and which
\* exited with 0, or exited uninterrupted with the job-information file
\* written, has invoked update_object exactly once.
C17_ClusterIdPersisted ==
    /\ CallCount("update_object") <= 1
    /\ Called("update_object") =>
          (0 < FirstCall("submit_job")
              /\ FirstCall("submit_job") < FirstCall("update_object"))
    /\ Called("disconnect") =>
          (0 < FirstCall("update_object")
              /\ FirstCall("update_object") < FirstCall("disconnect"))
    /\ (pc \in {"disconnect", "exit"} \/ (pc = "exited" /\ exitCode = 0)) =>
          /\ CallCount("update_object") = 1
          /\ job.condor_cluster = SubmitResult(response)
          /\ registry.cluster = job.condor_cluster
    /\ (pc = "exited" /\ exitCode = 0) => Called("disconnect")
    /\ (SubmissionSucceeded /\ pc = "exited" /\ ~interrupted /\ jobinfo # {}) =>
          CallCount("update_object") = 1

\* A run that exited with 0 after the scheduler answered for cluster 48.
C17_Witness ==
    /\ pc = "exited"
    /\ exitCode = 0
    /\ SubmissionSucceeded
    /\ registry.cluster = Val("str", <<"4", "8">>, FALSE)
    /\ CallCount("update_object") = 1
    /\ ~registry.connected

\* The keys of the entries of a job description.
Keys(d) == {e[1] : e \in d.entries}

\* The job description d is as build_job is to make it for the job: its
\* queue count is the number of the job's batches, which are the batches the
\* registry holds; it has the output and error entries exactly with per-task
\* logging and the log entry exactly with per-job logging, each naming the
\* job's file.
WellFormedDescription(d) ==
    /\ d.queue = Len(job.batches)
    /\ d.queue = Len(registry.batches)
    /\ ("output" \in Keys(d)) <=> condor.log_all
    /\ ("error" \in Keys(d)) <=> condor.log_all
    /\ ("log" \in Keys(d)) <=> condor.log_job
    /\ condor.log_all =>
          /\ <<"output", <<"job_">> \o IntText(job.dbid)
                  \o <<"_condor_", "$(Cluster)", "-", "$(Process)", ".out">>>> \in d.entries
          /\ <<"error", <<"job_">> \o IntText(job.dbid)
                  \o <<"_condor_", "$(Cluster)", "-", "$(Process)", ".err">>>> \in d.entries
    /\ condor.log_job =>
          <<"log", <<"job_">> \o IntText(job.dbid)
                  \o <<"_condor_", "$(Cluster)", ".log">>>> \in d.entries
    /\ Cardinality(d.entries) = Cardinality(Keys(d))

\* C18: the job description build_job has returned, and whatever the
\* scheduler was handed, queues as many tasks as the job has batches and
\* holds the output and error entries if and only if per-task logging is on
\* and the log entry if and only if per-job logging is on.
C18_ArraySizeAndToggles ==
    /\ jobstr # NoJobDescription => WellFormedDescription(jobstr)
    /\ \A n \in 1..Len(scheduler) : WellFormedDescription(scheduler[n].jobstr)
    /\ (pc \in {"submit_job", "parse", "write_jobinfo", "update_object"}) =>
          jobstr # NoJobDescription

\* A job of two batches handed to the scheduler with per-task logging on and
\* per-job logging off.
C18_Witness ==
    /\ Len(scheduler) = 1
    /\ scheduler[1].jobstr.queue = 2
    /\ condor.log_all
    /\ ~condor.log_job
    /\ "output" \in Keys(scheduler[1].jobstr)
    /\ "log" \notin Keys(scheduler[1].jobstr)

\* How far along its one way through main and run_job the coordinator is.
PcOrder ==
    <<"start", "collect", "insert", "add_testcases", "create_job", "run_job",
      "build_arguments", "open", "fchmod", "write", "del_environ", "copy_loop",
      "build_job", "submit_job", "parse", "write_jobinfo", "update_object",
      "disconnect", "exit", "handler", "exited">>
Rank(p) == CHOOSE n \in 1..Len(PcOrder) : PcOrder[n] = p

\* The operations the coordinator invokes; none of them reads results.
CoordinatorOps ==
    {"insert_testcases", "create_job_batches_runs", "build_job", "build_arguments",
     "submit_job", "write_jobinfo", "open_jobinfo", "update_object", "disconnect",
     "interrupt_handler"}

\* The coordinator's own next step, whatever the interpreter's signal does:
\* at every position before the end the one step the code takes next can be
\* taken.  The parse of the scheduler's answer is a computation on text
\* already read; it yields the sentinel or the digits the pattern found.
OwnStepEnabled ==
    CASE pc = "start" -> ENABLED Construct
      [] pc = "collect" -> ENABLED Collect
      [] pc = "insert" -> ENABLED InsertTestcases
      [] pc = "add_testcases" -> ENABLED AddTestcases
      [] pc = "create_job" -> ENABLED CreateJob
      [] pc = "run_job" -> ENABLED RunJob
      [] pc = "build_arguments" -> ENABLED StageCheck
      [] pc = "open" -> ENABLED StageOpen
      [] pc = "fchmod" -> ENABLED StageChmod
      [] pc = "write" -> ENABLED StageWrite
      [] pc = "del_environ" -> ENABLED StageDel
      [] pc = "copy_loop" -> ENABLED Encode
      [] pc = "build_job" -> ENABLED BuildJob
      [] pc = "submit_job" -> ENABLED SubmitInvoke
      [] pc = "parse" -> \/ SubmitResult(response) = Sentinel
                         \/ SearchPos(SubmitPattern, response) # 0
      [] pc = "write_jobinfo" -> ENABLED WriteJobinfo
      [] pc = "update_object" -> ENABLED UpdateObject
      [] pc = "disconnect" -> ENABLED Disconnect
      [] pc = "exit" -> ENABLED RunJobExit
      [] pc = "handler" -> ENABLED HandlerExit
      [] OTHER -> pc = "exited" /\ exitCode \in {0, 1, 2}

\* C19: the scheduler is invoked at most once in a run; the coordinator
\* invokes nothing but its registry writes, its own functions and the
\* teardown; until it has exited it always has a step of its own to take,
\* and every step takes it further along its one way, so that it never goes
\* back to submit again or to wait, and ends.
C19_SingleSubmissionNoWaiting ==
    /\ [](/\ CallCount("submit_job") <= 1
          /\ Len(scheduler) <= 1
          /\ \A n \in 1..Len(calls) : calls[n] \in CoordinatorOps
          /\ OwnStepEnabled)
    /\ [][Rank(pc') > Rank(pc)]_vars

\* A run whose submission came back without a cluster identifier and which
\* ended all the same, after one invocation of the scheduler.
C19_Witness ==
    /\ pc = "exited"
    /\ job.condor_cluster = Sentinel
    /\ CallCount("submit_job") = 1
    /\ Len(scheduler) = 1
    /\ Called("disconnect")

\* A database path is already configured when the invocation gave --dbpath a
\* non-empty value while RUNTESTS_DB is set (condor.py 142-143).
DbpathConfigured == environ0 /\ Truthy(args["dbpath"])

\* The positions after the del of RUNTESTS_DB, up to the return of run_job.
AfterStaging ==
    {"copy_loop", "build_job", "submit_job", "parse", "write_jobinfo",
     "update_object", "disconnect", "exit"}

\* C20: a credential file that holds the secret is readable and writable by
\* its owner only, and was so already in the state before the secret went
\* in; with a database path configured the credential file is never
\* touched, the configured path stays what the invocation gave, and
\* RUNTESTS_DB is gone from the environment once the staging is over.
C20_OwnerOnlyBeforeWrite ==
    /\ [](/\ ContainsText(pgconfig.content, SecretText) => pgconfig.mode = OwnerOnly
          /\ DbpathConfigured =>
                /\ condor.other_args["dbpath"] = args["dbpath"]
                /\ ~ContainsText(pgconfig.content, SecretText)
                /\ pc \in AfterStaging => ~environ)
    /\ [][/\ pgconfig'.content # pgconfig.content /\ pgconfig'.content # <<>>
             => pgconfig.exists /\ pgconfig.mode = OwnerOnly
          /\ DbpathConfigured => pgconfig' = pgconfig]_vars

\* A run that staged the secret into the credential file and went on to
\* submit.
C20_Witness ==
    /\ environ0
    /\ ~environ
    /\ pgconfig.exists
    /\ pgconfig.content = SecretText
    /\ pgconfig.mode = OwnerOnly
    /\ condor.other_args["dbpath"] = StagedPath
    /\ Called("submit_job")

\* A run with a configured database path that got past the staging.
C20_ConfiguredReached ==
    /\ DbpathConfigured
    /\ pgconfig = StaleFile
    /\ ~environ
    /\ Called("submit_job")

\* The array tasks the scheduler has started.
Spawned == {i \in DOMAIN tasks : tasks[i].pc # "idle"}

\* C21: the executor that an array task is started with, the one the job
\* description forces with -x, is never the distributed backend, whatever
\* --condor_exec was given, and so no array task dispatches again by
\* submitting to the scheduler.
C21_LocalSubExecutor ==
    \A i \in Spawned :
        /\ tasks[i].executor # <<"condor">>
        /\ "submit_job" \notin tasks[i].calls

\* An array task that was started with -x condor, loaded its batch and
\* submitted to the scheduler in its turn.
C21_Redispatched ==
    \E i \in Spawned :
        /\ condor.sub_exec = "condor"
        /\ tasks[i].executor = <<"condor">>
        /\ tasks[i].tests # <<>>
        /\ "submit_job" \in tasks[i].calls
        /\ tasks[i].exitCode = 0

====
